---- MODULE Spec2Model ----
(***************************************************************************)
(* Verification model of the ShapeShift landing front end: the discover    *)
(* search filter, the generic ResourceGrid, the FAQ scroll-spy and the     *)
(* paginated blog/newsroom lists with their detail pages and shared cache. *)
(***************************************************************************)
EXTENDS Integers, Sequences, FiniteSets, TLC

VARIABLES
    discover,        \* DiscoverSearchWrapper prop `discover` (list of items or NULL)
    searchQuery,     \* DiscoverSearchWrapper state `searchQuery`
    gridProps,       \* props of the last ResourceGrid render
    gridOut,         \* what that ResourceGrid render returned
    activeSection,   \* FAQContent state `activeSection`
    sectionRefs,     \* FAQContent ref `sectionRefs`: <<title, element present>> in key insertion order
    isManualScrolling, \* FAQContent ref `isManualScrolling`
    rafId,           \* FAQContent ref `rafId` (0 = undefined)
    pendingFrames,   \* animation-frame callbacks requested and neither run nor cancelled
    nextFrameId,     \* the id the next requestAnimationFrame call returns
    timers,          \* pending 500 ms timeouts of scrollToSection, oldest first
    scrollY,         \* window.scrollY
    lastClicked,     \* history: title passed to the last scrollToSection that found its element
    faqEvt,          \* history: the last FAQ event
    listening,       \* handleScroll is registered as the window's scroll listener
    cache,           \* cached-posts contexts: content type -> cachedResponse.data (slugs)
    view,            \* the page component mounted under the current route, with its hook state
    issued,          \* number of GETs issued to the CMS so far
    lastGet,         \* the content type and parameters of the last GET issued
    inflight,        \* the GETs still awaiting their response
    blogEvt,         \* history: the last blog/newsroom event and the GET it concerned
    srvCall,         \* the server-side call under way or last made: who awaits which fetcher
    srvRequests,     \* number of HTTP requests that call has made
    srvOutcome,      \* history: how the fetch of that call settled
    srvResult,       \* what the awaited fetcher resolved to (Pending until then)
    srvPage,         \* what the server page of that call ended with
    wrapper,         \* which search wrapper is mounted: chain, wallet or protocol
    resources,       \* its prop `chains` / `wallets` / `protocols`
    wrapperQuery,    \* its state `searchQuery`
    selectedType,    \* ChainSearchWrapper state `selectedType`
    filteredResources, \* state `filteredWallets` / `filteredProtocols`
    wrapperEvt,      \* history: the last event of the wrapper
    navSection,      \* the section whose navigation is mounted: blog or newsroom
    navRoute,        \* the kind of route being shown: index, category, tags or tag
    pathname,        \* usePathname()
    navParams,       \* useParams(): the route parameters `category` and `tag`
    requestUrl,      \* the URL the browser requests: on this site or not, and its path segments
    hops,            \* how many redirects the browser has followed since the user's request
    redirectEvt      \* history: the last answer of the redirect table

discoverVars == <<discover, searchQuery>>
gridVars == <<gridProps, gridOut>>
blogVars == <<cache, view, issued, lastGet, inflight, blogEvt>>
faqVars == <<activeSection, sectionRefs, isManualScrolling, rafId, pendingFrames,
             nextFrameId, timers, scrollY, lastClicked, faqEvt, listening>>
serverVars == <<srvCall, srvRequests, srvOutcome, srvResult, srvPage>>
searchVars == <<wrapper, resources, wrapperQuery, selectedType, filteredResources, wrapperEvt>>
navVars == <<navSection, navRoute, pathname, navParams>>
redirectVars == <<requestUrl, hops, redirectEvt>>

\* what an event of one part of the site leaves alone
nonDiscoverVars == <<gridVars, faqVars, blogVars, serverVars, searchVars, navVars, redirectVars>>
nonGridVars == <<discoverVars, faqVars, blogVars, serverVars, searchVars, navVars, redirectVars>>
nonFaqVars == <<discoverVars, gridVars, blogVars, serverVars, searchVars, navVars, redirectVars>>
nonBlogVars == <<discoverVars, gridVars, faqVars, serverVars, searchVars, navVars, redirectVars>>
nonServerVars == <<discoverVars, gridVars, faqVars, blogVars, searchVars, navVars, redirectVars>>
nonSearchVars == <<discoverVars, gridVars, faqVars, blogVars, serverVars, navVars, redirectVars>>
nonRedirectVars == <<discoverVars, gridVars, faqVars, blogVars, serverVars, searchVars, navVars>>
nonNavVars == <<discoverVars, gridVars, faqVars, blogVars, serverVars, searchVars, redirectVars>>

\* null / undefined for a nullable array; Some(l) is the array l itself
NULL == [null |-> TRUE]

Some(l) == [some |-> l]

\* an optional string prop that was not passed
UNDEFINED == "<undefined>"

(***************************************************************************)
(* Strings are sequences of one-character strings, so that toLowerCase and *)
(* includes are computed and not assumed.                                  *)
(***************************************************************************)
Chars == {"a", "A", "b", "B"}

MaxQueryLen == 2

MaxItems == 2

RECURSIVE StringsUpTo(_)
StringsUpTo(n) ==
    IF n = 0 THEN {<<>>}
    ELSE LET shorter == StringsUpTo(n - 1)
         IN  shorter \cup {Append(s, c) : s \in shorter, c \in Chars}

RECURSIVE ListsUpTo(_, _)
ListsUpTo(S, n) ==
    IF n = 0 THEN {<<>>}
    ELSE LET shorter == ListsUpTo(S, n - 1)
         IN  shorter \cup {Append(s, x) : s \in shorter, x \in S}

\* String.prototype.toLowerCase on one character
LowerChar(c) == IF c = "A" THEN "a" ELSE IF c = "B" THEN "b" ELSE c

\* String.prototype.toLowerCase
ToLowerCase(s) == [i \in 1..Len(s) |-> LowerChar(s[i])]

\* String.prototype.includes: needle occurs in hay as a contiguous substring
Includes(hay, needle) ==
    \E i \in 0..(Len(hay) - Len(needle)) :
        \A j \in 1..Len(needle) : hay[i + j] = needle[j]

(***************************************************************************)
(* DiscoverSearchWrapper                                                   *)
(***************************************************************************)
\* The discover entries the CMS may hand to the wrapper (title, tag, type).
DiscoverPool ==
    { [title |-> <<"A", "b">>, tag |-> <<"a">>,      type |-> "Trade"],
      [title |-> <<"b">>,      tag |-> <<"B", "a">>, type |-> "Earn"],
      [title |-> <<"a", "a">>, tag |-> <<>>,         type |-> "Trade"],
      [title |-> <<"B", "B">>, tag |-> <<"A">>,      type |-> "Earn"] }

Queries == StringsUpTo(MaxQueryLen)

\* mutant: the query is not lower-cased
DiscoverItemMatchesCaseSensitive(item, query) ==
    \/ Includes(ToLowerCase(item.title), query)
    \/ Includes(ToLowerCase(item.tag), query)

\* the predicate handed to discover?.filter(...)
DiscoverItemMatches(item, query) ==
    \/ Includes(ToLowerCase(item.title), ToLowerCase(query))
    \/ Includes(ToLowerCase(item.tag), ToLowerCase(query))

\* const filteredDiscover = discover?.filter(...): undefined when discover is null
FilteredDiscover(list, query) ==
    IF list = NULL THEN NULL
    ELSE LET Test(item) == DiscoverItemMatches(item, query)
         IN  Some(SelectSeq(list.some, Test))   \* Array.prototype.filter keeps the order

\* the keys of groupedDiscover in insertion order: the types of the filtered
\* items, each at its first occurrence
RECURSIVE GroupTypes(_)
GroupTypes(list) ==
    IF list = <<>> THEN <<>>
    ELSE LET before == GroupTypes(SubSeq(list, 1, Len(list) - 1))
             type == list[Len(list)].type
         IN  IF \E i \in 1..Len(before) : before[i] = type THEN before
             ELSE Append(before, type)

\* const groupedDiscover = filteredDiscover?.reduce(...): the filtered items
\* grouped by type, as Object.entries lists them
GroupedDiscover(filtered) ==
    IF filtered = NULL THEN NULL
    ELSE LET types == GroupTypes(filtered.some)
         IN  Some([k \in 1..Len(types) |->
                     [type |-> types[k],
                      items |-> SelectSeq(filtered.some, LAMBDA item : item.type = types[k])]])

\* what DiscoverSearchWrapper returns: the search bar, then one section per
\* group; the component has no other child
DiscoverSearchWrapper(list, query) ==
    LET groupedDiscover == GroupedDiscover(FilteredDiscover(list, query))
    IN  [searchBar |-> TRUE,
         sections |-> IF groupedDiscover = NULL THEN <<>> ELSE groupedDiscover.some,
         messages |-> <<>>]

\* SearchBar calls setSearchQueryAction with the text box value
SetSearchQuery(q) ==
    /\ q # searchQuery
    /\ searchQuery' = q
    /\ UNCHANGED discover
    /\ UNCHANGED nonDiscoverVars

DiscoverNext == \E q \in Queries : SetSearchQuery(q)

(***************************************************************************)
(* ResourceGrid                                                            *)
(***************************************************************************)
DEFAULT_EMPTY_MESSAGE == "No items available yet."

GridItemPool == {"i1", "i2", "i3"}

MaxGridItems == 3

EmptyMessages == {UNDEFINED, "No chains available yet.", "We couldn't find anything matching your search."}

GridItemLists == {Some(l) : l \in ListsUpTo(GridItemPool, MaxGridItems)} \cup {NULL}

\* renderItem(item, index): the card built for one item
RenderItem(item, index) == [card |-> item, index |-> index]

\* mutant: only null / undefined counts as empty
ResourceGridNullOnly(items, isLoading, emptyMessage) ==
    LET message == IF emptyMessage = UNDEFINED THEN DEFAULT_EMPTY_MESSAGE ELSE emptyMessage
    IN  IF isLoading
        THEN [kind |-> "loading", messages |-> <<>>, cards |-> <<>>, renderCalls |-> 0]
        ELSE IF items = NULL
        THEN [kind |-> "empty", messages |-> <<message>>, cards |-> <<>>, renderCalls |-> 0]
        ELSE [kind |-> "grid", messages |-> <<>>,
              cards |-> [i \in 1..Len(items.some) |-> RenderItem(items.some[i], i - 1)],
              renderCalls |-> Len(items.some)]

\* ResourceGrid({items, renderItem, isLoading = false, emptyMessage = '...'})
ResourceGrid(items, isLoading, emptyMessage) ==
    LET message == IF emptyMessage = UNDEFINED THEN DEFAULT_EMPTY_MESSAGE ELSE emptyMessage
    IN  IF isLoading
        THEN [kind |-> "loading", messages |-> <<>>, cards |-> <<>>, renderCalls |-> 0]
        ELSE IF items = NULL \/ Len(items.some) = 0
        THEN [kind |-> "empty", messages |-> <<message>>, cards |-> <<>>, renderCalls |-> 0]
        ELSE [kind |-> "grid", messages |-> <<>>,
              cards |-> [i \in 1..Len(items.some) |-> RenderItem(items.some[i], i - 1)],
              renderCalls |-> Len(items.some)]

\* a render of ResourceGrid with the props its parent passes
RenderGrid(items, isLoading, emptyMessage) ==
    /\ gridProps' = [items |-> items, isLoading |-> isLoading, emptyMessage |-> emptyMessage]
    /\ gridProps' # gridProps
    /\ gridOut' = ResourceGrid(items, isLoading, emptyMessage)
    /\ UNCHANGED nonGridVars

GridNext ==
    \E items \in GridItemLists, isLoading \in BOOLEAN, m \in EmptyMessages :
        RenderGrid(items, isLoading, m)

(***************************************************************************)
(* FAQContent: scroll-spy and sidebar navigation                           *)
(***************************************************************************)
\* the header offset the scroll-spy and scrollToSection aim at
TARGET_TOP == 160

MaxSections == 3

MaxFrames == 4

MaxTimers == 2

\* faqData.faqSection titles in document order and where each <section> starts
AllTitles == <<"General", "Wallets", "Trading", "Fees">>

SectionOffset == [General |-> 100, Wallets |-> 220, Trading |-> 540, Fees |-> 860]

ScrollPositions == {0, 60, 320, 380}

Abs(x) == IF x < 0 THEN 0 - x ELSE x

\* element?.getBoundingClientRect().top ?? 0
SectionTop(ref, y) == IF ref.element THEN SectionOffset[ref.title] - y ELSE 0

\* Object.entries(sectionRefs.current).map(([title, element]) => ({title, top}))
SectionPositions(refs, y) ==
    [i \in 1..Len(refs) |-> [title |-> refs[i].title, top |-> SectionTop(refs[i], y)]]

\* mutant: <= instead of <, so the later of two equally close sections wins
CloserOfLast(closest, current) ==
    IF Abs(current.top - TARGET_TOP) <= Abs(closest.top - TARGET_TOP) THEN current ELSE closest

\* the reducer: currentDistance < closestDistance ? current : closest
CloserOf(closest, current) ==
    IF Abs(current.top - TARGET_TOP) < Abs(closest.top - TARGET_TOP) THEN current ELSE closest

RECURSIVE Reduce(_, _)
Reduce(positions, closest) ==
    IF positions = <<>> THEN closest
    ELSE Reduce(Tail(positions), CloserOf(closest, Head(positions)))

\* sectionPositions.reduce(..., sectionPositions[0] || {title: '', top: 0})
ClosestSection(refs, y) ==
    LET positions == SectionPositions(refs, y)
        initial == IF Len(positions) > 0 THEN positions[1] ELSE [title |-> "", top |-> 0]
    IN  Reduce(positions, initial)

\* sectionRefs.current[sectionTitle]: the element registered under the title, if any
HasElement(refs, title) ==
    \E i \in 1..Len(refs) : refs[i].title = title /\ refs[i].element

\* mutant: the frame requested before is not cancelled
ScrollEventNoCancel(y) ==
    /\ y # scrollY
    /\ scrollY' = y
    /\ faqEvt' = "scroll"
    /\ IF ~listening \/ isManualScrolling
       THEN UNCHANGED <<rafId, pendingFrames, nextFrameId>>
       ELSE /\ nextFrameId <= MaxFrames
            /\ rafId' = nextFrameId
            /\ nextFrameId' = nextFrameId + 1
            /\ pendingFrames' = pendingFrames \cup {nextFrameId}
    /\ UNCHANGED <<activeSection, sectionRefs, isManualScrolling, timers, lastClicked, listening>>
    /\ UNCHANGED nonFaqVars

\* a scroll event (user scrolling or the smooth scroll in progress): the window
\* scrolls and, while handleScroll is registered, handleScroll runs
ScrollEvent(y) ==
    /\ y # scrollY
    /\ scrollY' = y
    /\ faqEvt' = "scroll"
    /\ IF ~listening \/ isManualScrolling
       THEN UNCHANGED <<rafId, pendingFrames, nextFrameId>>
       ELSE /\ nextFrameId <= MaxFrames
            /\ rafId' = nextFrameId
            /\ nextFrameId' = nextFrameId + 1
            /\ pendingFrames' = (IF rafId # 0 THEN pendingFrames \ {rafId} ELSE pendingFrames)
                                   \cup {nextFrameId}
    /\ UNCHANGED <<activeSection, sectionRefs, isManualScrolling, timers, lastClicked, listening>>
    /\ UNCHANGED nonFaqVars

\* the browser runs a requested animation-frame callback
FrameCallback(id) ==
    /\ id \in pendingFrames
    /\ pendingFrames' = pendingFrames \ {id}
    /\ activeSection' = ClosestSection(sectionRefs, scrollY).title
    /\ faqEvt' = "frame"
    /\ UNCHANGED <<sectionRefs, isManualScrolling, rafId, nextFrameId, timers, scrollY, lastClicked,
                   listening>>
    /\ UNCHANGED nonFaqVars

\* a click on a FAQNavigation button: scrollToSection(sectionTitle)
ScrollToSection(title) ==
    /\ listening
    /\ faqEvt' = "click"
    /\ IF ~HasElement(sectionRefs, title)
       THEN UNCHANGED <<activeSection, isManualScrolling, timers, lastClicked>>
       ELSE /\ Len(timers) < MaxTimers
            /\ isManualScrolling' = TRUE
            /\ activeSection' = title
            /\ timers' = Append(timers, title)
            /\ lastClicked' = title
    /\ UNCHANGED <<sectionRefs, rafId, pendingFrames, nextFrameId, scrollY, listening>>
    /\ UNCHANGED nonFaqVars

\* mutant: the timeout callback leaves the flag set
TimerFiresKeepsFlag ==
    /\ timers # <<>>
    /\ timers' = Tail(timers)
    /\ faqEvt' = "timer"
    /\ UNCHANGED <<activeSection, sectionRefs, isManualScrolling, rafId, pendingFrames, nextFrameId,
                   scrollY, lastClicked, listening>>
    /\ UNCHANGED nonFaqVars

\* the oldest pending timeout fires: isManualScrolling.current = false
TimerFires ==
    /\ timers # <<>>
    /\ timers' = Tail(timers)
    /\ isManualScrolling' = FALSE
    /\ faqEvt' = "timer"
    /\ UNCHANGED <<activeSection, sectionRefs, rafId, pendingFrames, nextFrameId, scrollY, lastClicked,
                   listening>>
    /\ UNCHANGED nonFaqVars

\* a <section> leaves the page: React calls its ref callback with null
SectionRemoved(i) ==
    /\ listening
    /\ i \in 1..Len(sectionRefs)
    /\ sectionRefs[i].element
    /\ sectionRefs' = [sectionRefs EXCEPT ![i].element = FALSE]
    /\ faqEvt' = "removed"
    /\ UNCHANGED <<activeSection, isManualScrolling, rafId, pendingFrames, nextFrameId,
                   timers, scrollY, lastClicked, listening>>
    /\ UNCHANGED nonFaqVars

\* mutant: the cleanup removes the listener and leaves the requested frame alone
UnmountKeepsFrame ==
    /\ listening
    /\ listening' = FALSE
    /\ faqEvt' = "unmount"
    /\ UNCHANGED <<activeSection, sectionRefs, isManualScrolling, rafId, pendingFrames, nextFrameId,
                   timers, scrollY, lastClicked>>
    /\ UNCHANGED nonFaqVars

\* FAQContent unmounts: the effect's cleanup removes the scroll listener and
\* cancels the frame whose id is in rafId; the timeouts are left to fire
Unmount ==
    /\ listening
    /\ listening' = FALSE
    /\ pendingFrames' = (IF rafId # 0 THEN pendingFrames \ {rafId} ELSE pendingFrames)
    /\ faqEvt' = "unmount"
    /\ UNCHANGED <<activeSection, sectionRefs, isManualScrolling, rafId, nextFrameId,
                   timers, scrollY, lastClicked>>
    /\ UNCHANGED nonFaqVars

FaqNext ==
    \/ \E y \in ScrollPositions : ScrollEvent(y)
    \/ \E id \in 1..MaxFrames : FrameCallback(id)
    \/ \E i \in 1..MaxSections : ScrollToSection(AllTitles[i])
    \/ TimerFires
    \/ \E i \in 1..MaxSections : SectionRemoved(i)
    \/ Unmount

(***************************************************************************)
(* Blog / newsroom: CMS, fetch hook, cached-posts context, list and detail *)
(* pages                                                                   *)
(***************************************************************************)
Types == {"blog", "newsroom"}

\* posts per page of the list components (12 in the source, scaled down)
PAGE_SIZE == 2

\* number of posts the CMS holds per content type; slugs are 1..MaxPosts
MaxPosts == 5

MaxRequests == 2

MaxClicks == 3

\* a slug no CMS record has
MISSING_SLUG == 0

\* the hook parameter `slug`, `tag` or `category` was not passed
NO_SLUG == -1

NO_FILTER == ""

\* `pagination` is still null
NO_PAGINATION == -1

PostTag(slug) == IF slug % 2 = 1 THEN "defi" ELSE "dao"

PostCategory(slug) == IF slug <= 2 THEN "guides" ELSE "news"

\* the tag / category props the list pages are rendered with
ListFilters ==
    { [tag |-> NO_FILTER, category |-> NO_FILTER],
      [tag |-> "defi",    category |-> NO_FILTER],
      [tag |-> NO_FILTER, category |-> "news"] }

DetailSlugs == {MISSING_SLUG, 1, MaxPosts}

\* CMS: the records matching the filters of a request, newest first
CmsMatching(params) ==
    LET Match(slug) ==
            /\ params.tag \in {NO_FILTER, PostTag(slug)}
            /\ params.category \in {NO_FILTER, PostCategory(slug)}
            /\ params.slug \in {NO_SLUG, slug}
    IN  SelectSeq([i \in 1..MaxPosts |-> i], Match)

Min(a, b) == IF a < b THEN a ELSE b

\* CMS: the {data, meta.pagination} envelope for a request
CmsResponse(params) ==
    LET all == CmsMatching(params)
        first == (params.page - 1) * params.pageSize + 1
        last == Min(Len(all), params.page * params.pageSize)
    IN  [data |-> SubSeq(all, first, last),
         pageCount |-> (Len(all) + params.pageSize - 1) \div params.pageSize]

\* cachedPosts.find(p => p.slug === slug), as a truth value
InList(list, slug) == \E i \in 1..Len(list) : list[i] = slug

\* mutant: only the last cached item is compared
SkipLastOnly(cachedPosts, slug) ==
    Len(cachedPosts) > 0 /\ cachedPosts[Len(cachedPosts)] = slug

\* skip: !!cachedPosts.find(p => p.slug === slug)
Skip(cachedPosts, slug) == InList(cachedPosts, slug)

\* mutant: the page state is not handed to the hook
ListParamsFirstPage(v) ==
    [page |-> 1, pageSize |-> PAGE_SIZE, tag |-> v.tag, category |-> v.category,
     slug |-> NO_SLUG]

\* the parameters a list component hands to the hook
ListParams(v) ==
    [page |-> v.page, pageSize |-> PAGE_SIZE, tag |-> v.tag, category |-> v.category,
     slug |-> NO_SLUG]

\* the parameters a detail page hands to the hook
DetailParams(v) ==
    [page |-> 1, pageSize |-> 1, tag |-> NO_FILTER, category |-> NO_FILTER, slug |-> v.slug]

\* mutant: the empty-state branch is missing
ListViewNoEmpty(v) == IF v.isLoading THEN "skeleton" ELSE "grid"

\* what a list component returns
ListView(v) ==
    IF v.isLoading THEN "skeleton"
    ELSE IF Len(v.posts) = 0 THEN "empty"
    ELSE "grid"

\* mutant: the pagination control is rendered next to the skeleton too
ControlShownWhileLoading(v) == v.kind = "list"

\* the pagination control is part of the non-loading return value only
ControlShown(v) == v.kind = "list" /\ ~v.isLoading

\* pageCount={pagination?.pageCount ?? 1}
ControlPageCount(v) == IF v.pageCount = NO_PAGINATION THEN 1 ELSE v.pageCount

\* [...cachedPosts, ...posts].find(p => p.slug === slug)
FindPost(cachedPosts, posts, slug) == InList(cachedPosts \o posts, slug)

\* mutant: the notFound() branch is missing
DetailViewNoNotFound(v, cachedPosts) == IF v.isLoading THEN "skeleton" ELSE "article"

\* what a blog / newsroom detail page returns
DetailView(v, cachedPosts) ==
    IF v.isLoading THEN "skeleton"
    ELSE IF ~FindPost(cachedPosts, v.posts, v.slug) THEN "notFound"
    ELSE "article"

\* mutant: the context is overwritten from the list seen at request time
CacheMergeOverwrite(cached, snapshot, data) ==
    LET Fresh(slug) == ~InList(snapshot, slug)
    IN  snapshot \o SelectSeq(data, Fresh)

\* hook: the items of a response that the cached-posts context gains; the
\* hook merges by slug against the cached list it saw when it issued the GET
CacheMerge(cached, snapshot, data) ==
    LET Fresh(slug) == ~InList(snapshot, slug)
    IN  cached \o SelectSeq(data, Fresh)

NoView ==
    [kind |-> "none", ctype |-> "blog", tag |-> NO_FILTER, category |-> NO_FILTER,
     slug |-> NO_SLUG, page |-> 1, posts |-> <<>>, pageCount |-> NO_PAGINATION,
     isLoading |-> FALSE, selected |-> 0, resource |-> "", record |-> NO_SLUG,
     skipped |-> FALSE, cachedAtMount |-> FALSE, fetched |-> {}, nextClicks |-> 0,
     otherClicks |-> FALSE, failed |-> FALSE]

NoGet == [ctype |-> "", params |-> [page |-> 0]]

Evt(name, current) == [name |-> name, current |-> current]

\* hook: issue the GET for the parameters of the mounted component; the GETs of
\* components that were unmounted stay in flight (no cancellation)
IssueRequest(ctype, params, others) ==
    /\ issued < MaxRequests
    /\ issued' = issued + 1
    /\ lastGet' = [ctype |-> ctype, params |-> params]
    /\ LET same == {r \in others : r.ctype = ctype /\ r.params = params
                                               /\ r.snapshot = cache[ctype]}
       IN  inflight' = others \cup {[copy |-> Cardinality(same) + 1, ctype |-> ctype,
                                     params |-> params, snapshot |-> cache[ctype],
                                     current |-> TRUE]}

\* the GETs in flight once the mounted component is gone
Orphaned(requests) == {[r EXCEPT !.current = FALSE] : r \in requests}

\* navigation to a list page: the list component mounts with page = 1 and
\* its hook fetches
MountList(ctype, filter) ==
    /\ view' = [NoView EXCEPT !.kind = "list", !.ctype = ctype, !.tag = filter.tag,
                              !.category = filter.category, !.isLoading = TRUE,
                              !.fetched = {1}]
    /\ IssueRequest(ctype, ListParams(view'), Orphaned(inflight))
    /\ blogEvt' = Evt("mount", FALSE)
    /\ UNCHANGED cache
    /\ UNCHANGED nonBlogVars

\* navigation to /blog/[slug] or /newsroom/[slug]: the detail page mounts
MountDetail(ctype, slug) ==
    /\ LET skip == Skip(cache[ctype], slug)
           v == [NoView EXCEPT !.kind = "detail", !.ctype = ctype, !.slug = slug,
                               !.isLoading = ~skip, !.skipped = skip,
                               !.cachedAtMount = InList(cache[ctype], slug),
                               !.fetched = IF skip THEN {} ELSE {1}]
       IN  /\ view' = v
           /\ v # view
           /\ IF skip THEN /\ inflight' = Orphaned(inflight)
                           /\ UNCHANGED <<issued, lastGet>>
                      ELSE IssueRequest(ctype, DetailParams(v), Orphaned(inflight))
    /\ blogEvt' = Evt("mount", FALSE)
    /\ UNCHANGED cache
    /\ UNCHANGED nonBlogVars

ResourceKinds == {"chain", "wallet", "protocol"}

\* the supported chains / wallets / protocols of the CMS have the slugs 1..MaxResources
MaxResources == 1

ResourceSlugs == 0..MaxResources

\* getSupportedChain / getSupportedWallet / getSupportedProtocol: the record
\* with the slug, or null when the fetch fails or nothing matches
GetSupported(kind, slug, fetchOk) ==
    IF fetchOk /\ slug \in 1..MaxResources THEN slug ELSE NO_SLUG

\* ChainPage / WalletPage / ProtocolPage: if (!chain) return notFound()
ResourcePage(record) == IF record = NO_SLUG THEN "notFound" ELSE "detail"

\* navigation to /supported-chains/[slug] or one of its siblings (server rendered)
VisitResource(kind, slug, fetchOk) ==
    /\ view' = [NoView EXCEPT !.kind = "resource", !.resource = kind, !.slug = slug,
                              !.record = GetSupported(kind, slug, fetchOk)]
    /\ view' # view
    /\ inflight' = Orphaned(inflight)
    /\ blogEvt' = Evt("mount", FALSE)
    /\ UNCHANGED <<cache, issued, lastGet>>
    /\ UNCHANGED nonBlogVars

\* what the page under the current route shows
PageView ==
    CASE view.kind = "list" -> ListView(view)
      [] view.kind = "detail" -> DetailView(view, cache[view.ctype])
      [] view.kind = "resource" -> ResourcePage(view.record)
      [] OTHER -> "none"

\* onPageChange={({selected}) => setPage(selected + 1)}
OnPageChange(v, selected) == [v EXCEPT !.page = selected + 1]

\* the control selects index `selected` and calls onPageChange; a changed
\* page makes the hook fetch and the component return the skeleton
SelectPage(selected, isNext) ==
    LET clicked == [view EXCEPT !.selected = selected,
                                !.nextClicks = IF isNext THEN @ + 1 ELSE @,
                                !.otherClicks = IF isNext THEN @ ELSE TRUE]
        v == OnPageChange(clicked, selected)
    IN  IF v.page # view.page
        THEN /\ view' = [v EXCEPT !.isLoading = TRUE, !.fetched = @ \cup {v.page}]
             /\ IssueRequest(v.ctype, ListParams(v), inflight)
        ELSE /\ view' = v
             /\ UNCHANGED <<issued, lastGet, inflight>>

\* click on the "next" arrow of the pagination control
ClickNext ==
    /\ ControlShown(view)
    /\ view.selected < ControlPageCount(view) - 1
    /\ view.nextClicks < MaxClicks
    /\ SelectPage(view.selected + 1, TRUE)
    /\ blogEvt' = Evt("click", FALSE)
    /\ UNCHANGED cache
    /\ UNCHANGED nonBlogVars

\* click on the "previous" arrow of the pagination control; on the first
\* index the control ignores the click
ClickPrevious ==
    /\ ControlShown(view)
    /\ IF view.selected > 0
       THEN SelectPage(view.selected - 1, FALSE)
       ELSE UNCHANGED <<view, issued, lastGet, inflight>>
    /\ blogEvt' = Evt("click", FALSE)
    /\ UNCHANGED cache
    /\ UNCHANGED nonBlogVars

\* click on a page number of the pagination control
ClickPage(index) ==
    /\ ControlShown(view)
    /\ index \in 0..(ControlPageCount(view) - 1)
    /\ index # view.selected
    /\ SelectPage(index, FALSE)
    /\ blogEvt' = Evt("click", FALSE)
    /\ UNCHANGED cache
    /\ UNCHANGED nonBlogVars

\* the pagination control as it mounts: no forcePage / initialPage is passed
ControlMount == 0

\* mutant: the response of a GET whose component is gone is thrown away
ResponseOkDropsOrphan(r) ==
    /\ r \in inflight
    /\ LET res == CmsResponse(r.params)
       IN  /\ cache' = IF r.current
                       THEN [cache EXCEPT ![r.ctype] = CacheMerge(@, r.snapshot, res.data)]
                       ELSE cache
           /\ view' = IF r.current
                      THEN [view EXCEPT !.posts = res.data, !.pageCount = res.pageCount,
                                        !.isLoading = FALSE, !.selected = ControlMount]
                      ELSE view
    /\ inflight' = inflight \ {r}
    /\ blogEvt' = Evt("responseOk", r.current)
    /\ UNCHANGED <<issued, lastGet>>
    /\ UNCHANGED nonBlogVars

\* hook: the response of the GET r arrives
ResponseOk(r) ==
    /\ r \in inflight
    /\ LET res == CmsResponse(r.params)
       IN  /\ cache' = [cache EXCEPT ![r.ctype] = CacheMerge(@, r.snapshot, res.data)]
           /\ view' = IF r.current
                      THEN [view EXCEPT !.posts = res.data, !.pageCount = res.pageCount,
                                        !.isLoading = FALSE, !.selected = ControlMount]
                      ELSE view
    /\ inflight' = inflight \ {r}
    /\ blogEvt' = Evt("responseOk", r.current)
    /\ UNCHANGED <<issued, lastGet>>
    /\ UNCHANGED nonBlogVars

\* hook: the GET r fails (network error or error status)
ResponseFails(r) ==
    /\ r \in inflight
    /\ view' = IF r.current
               THEN [view EXCEPT !.posts = <<>>, !.isLoading = FALSE,
                                 !.selected = ControlMount, !.failed = TRUE]
               ELSE view
    /\ inflight' = inflight \ {r}
    /\ blogEvt' = Evt("responseFails", r.current)
    /\ UNCHANGED <<cache, issued, lastGet>>
    /\ UNCHANGED nonBlogVars

\* the mounted component renders again with unchanged props and state
Rerender ==
    /\ view.kind # "none"
    /\ blogEvt' = Evt("rerender", FALSE)
    /\ UNCHANGED <<cache, view, issued, lastGet, inflight>>
    /\ UNCHANGED nonBlogVars

BlogNext ==
    \/ \E ctype \in Types, filter \in ListFilters : MountList(ctype, filter)
    \/ \E ctype \in Types, slug \in DetailSlugs : MountDetail(ctype, slug)
    \/ ClickNext
    \/ ClickPrevious
    \/ \E index \in 0..MaxPosts : ClickPage(index)
    \/ \E r \in inflight : ResponseOk(r)
    \/ \E r \in inflight : ResponseFails(r)
    \/ Rerender
    \/ \E kind \in ResourceKinds, slug \in ResourceSlugs, fetchOk \in BOOLEAN :
          VisitResource(kind, slug, fetchOk)

(***************************************************************************)
(* Server-side fetch utilities and the server pages built on one fetch     *)
(***************************************************************************)
\* longest `data` array of a modelled response body
MaxData == 1

\* the value `undefined`
JsUndefined == [undefined |-> TRUE]

\* an exception thrown while a function body runs
Threw == [threw |-> "TypeError"]

\* what notFound() throws
NotFoundThrown == [threw |-> "NEXT_NOT_FOUND"]

\* an async function's promise: still pending, resolved to v, or rejected
Pending == [pending |-> TRUE]

Resolved(v) == [resolved |-> v]

Rejected == [rejected |-> TRUE]

\* CMS records; featuredImg tells whether the record has its image
CmsObjects == {[object |-> 1, featuredImg |-> TRUE], [object |-> 2, featuredImg |-> FALSE]}

\* what the `data` member of a JSON body may be (JsUndefined: no such member)
DataValues ==
    {JsUndefined, NULL} \cup CmsObjects \cup {Some(l) : l \in ListsUpTo(CmsObjects, MaxData)}

\* response bodies: not JSON at all, the JSON value null, or a JSON object
Bodies ==
    {[parses |-> FALSE, json |-> NULL]}
        \cup {[parses |-> TRUE, json |-> j] : j \in {NULL} \cup {[data |-> d] : d \in DataValues}}

\* how a fetch() settles: rejected (network error) or a response
NetworkFailure == [network |-> FALSE]

HttpResponse(ok, body) == [network |-> TRUE, ok |-> ok, body |-> body]

\* JavaScript truthiness of the values above: objects and arrays (empty ones
\* too) are truthy, null and undefined are falsy
Truthy(v) == v # NULL /\ v # JsUndefined

\* v || null
OrNull(v) == IF Truthy(v) THEN v ELSE NULL

\* await response.json()
ResponseJson(body) == IF body.parses THEN body.json ELSE Threw

\* data.data : reading a member of null throws
DataOf(json) == IF json = NULL THEN Threw ELSE json.data

IsArray(d) == "some" \in DOMAIN d

\* d[0] on a non-null value
ElementZero(d) == IF IsArray(d) /\ Len(d.some) > 0 THEN d.some[1] ELSE JsUndefined

\* d?.[0]
OptionalFirst(d) == IF Truthy(d) THEN ElementZero(d) ELSE JsUndefined

\* d[0] : indexing null or undefined throws
First(d) == IF Truthy(d) THEN ElementZero(d) ELSE Threw

\* try { response = await fetch(..); if (!response.ok) return null;
\*       data = await response.json(); return data.data || null } catch { return null }
fetchAllProtocols(o) ==
    IF ~o.network THEN NULL
    ELSE IF ~o.ok THEN NULL
    ELSE LET data == ResponseJson(o.body)
         IN  IF data = Threw THEN NULL
             ELSE IF DataOf(data) = Threw THEN NULL
             ELSE OrNull(DataOf(data))

fetchAllChains(o) ==
    IF ~o.network THEN NULL
    ELSE IF ~o.ok THEN NULL
    ELSE LET data == ResponseJson(o.body)
         IN  IF data = Threw THEN NULL
             ELSE IF DataOf(data) = Threw THEN NULL
             ELSE OrNull(DataOf(data))

fetchAllWallets(o) ==
    IF ~o.network THEN NULL
    ELSE IF ~o.ok THEN NULL
    ELSE LET data == ResponseJson(o.body)
         IN  IF data = Threw THEN NULL
             ELSE IF DataOf(data) = Threw THEN NULL
             ELSE OrNull(DataOf(data))

fetchFaqData(o) ==
    IF ~o.network THEN NULL
    ELSE IF ~o.ok THEN NULL
    ELSE LET data == ResponseJson(o.body)
         IN  IF data = Threw THEN NULL
             ELSE IF DataOf(data) = Threw THEN NULL
             ELSE OrNull(DataOf(data))

\* ... return data.data?.[0] || null
fetchDiscoverBySlug(o) ==
    IF ~o.network THEN NULL
    ELSE IF ~o.ok THEN NULL
    ELSE LET data == ResponseJson(o.body)
         IN  IF data = Threw THEN NULL
             ELSE IF DataOf(data) = Threw THEN NULL
             ELSE OrNull(OptionalFirst(DataOf(data)))

\* ... return data.data
fetchWithErrorHandling(o) ==
    IF ~o.network THEN NULL
    ELSE IF ~o.ok THEN NULL
    ELSE LET data == ResponseJson(o.body)
         IN  IF data = Threw THEN NULL
             ELSE IF DataOf(data) = Threw THEN NULL
             ELSE DataOf(data)

\* ProductFetcher: the product pages' fetchers wrap fetchWithErrorHandling
fetchEarnPage(o) == fetchWithErrorHandling(o)

fetchMobileAppPage(o) == fetchWithErrorHandling(o)

FetchUtilities ==
    {"fetchAllProtocols", "fetchAllChains", "fetchAllWallets", "fetchDiscoverBySlug",
     "fetchFaqData", "fetchWithErrorHandling"}

\* the value a call of the utility fn resolves to when its fetch settles as o
UtilityResult(fn, o) ==
    CASE fn = "fetchAllProtocols" -> fetchAllProtocols(o)
      [] fn = "fetchAllChains" -> fetchAllChains(o)
      [] fn = "fetchAllWallets" -> fetchAllWallets(o)
      [] fn = "fetchDiscoverBySlug" -> fetchDiscoverBySlug(o)
      [] fn = "fetchFaqData" -> fetchFaqData(o)
      [] fn = "fetchWithErrorHandling" -> fetchWithErrorHandling(o)
      [] fn = "fetchEarnPage" -> fetchEarnPage(o)
      [] fn = "fetchMobileAppPage" -> fetchMobileAppPage(o)

\* mutant: only null counts as missing data
ContentOrNotFoundNullOnly(data) == IF data = NULL THEN "notFound" ELSE "content"

\* if (!data) return notFound(); return <page content>
ContentOrNotFound(data) == IF ~Truthy(data) THEN "notFound" ELSE "content"

\* FAQPage
FAQPage(o) == ContentOrNotFound(fetchFaqData(o))

\* EarnPage
EarnPage(o) == ContentOrNotFound(fetchEarnPage(o))

\* MobileAppPage
MobileAppPage(o) == ContentOrNotFound(fetchMobileAppPage(o))

\* the tag / category pages: data = await fetch(..) without try/catch and
\* without a look at response.ok; const {data: posts} = await data.json();
\* if (!posts) return notFound(); return <ListOfPosts .../>
TagOrCategoryPage(o) ==
    IF ~o.network THEN "error"
    ELSE LET json == ResponseJson(o.body)
         IN  IF json = Threw THEN "error"
             ELSE IF DataOf(json) = Threw THEN "error"
             ELSE IF ~Truthy(DataOf(json)) THEN "notFound"
             ELSE "ListOfPosts"

BlogTagsPage(o) == TagOrCategoryPage(o)

BlogCategoriesPage(o) == TagOrCategoryPage(o)

NewsroomTagsPage(o) == TagOrCategoryPage(o)

NewsroomCategoriesPage(o) == TagOrCategoryPage(o)

\* the metadata object built from a post
PostMetadata(post) == [title |-> post.object, openGraph |-> post.object, twitter |-> post.object]

EmptyMetadata == [empty |-> TRUE]

\* generateMetadata of the blog post layout: fetch(..).then(res => res.json())
\* without try/catch; post = data.data[0]; if (!post) return notFound();
\* imageUrl = post.featuredImg.formats.thumbnail.url; return {...}
generateMetadata(o) ==
    IF ~o.network THEN Rejected
    ELSE LET data == ResponseJson(o.body)
         IN  IF data = Threw THEN Rejected
             ELSE IF DataOf(data) = Threw THEN Rejected
             ELSE LET post == First(DataOf(data))
                  IN  IF post = Threw THEN Rejected
                      ELSE IF ~Truthy(post) THEN NotFoundThrown
                      ELSE IF ~post.featuredImg THEN Rejected
                      ELSE Resolved(PostMetadata(post))

ServerPages == {"FAQPage", "EarnPage", "MobileAppPage"}

TagPages == {"BlogTagsPage", "BlogCategoriesPage", "NewsroomTagsPage", "NewsroomCategoriesPage"}

\* the fetch utility a server page awaits
PageFetcher(page) ==
    CASE page = "FAQPage" -> "fetchFaqData"
      [] page = "EarnPage" -> "fetchEarnPage"
      [] page = "MobileAppPage" -> "fetchMobileAppPage"

NoCall == [caller |-> "none", fn |-> "none"]

NoOutcome == [none |-> TRUE]

\* a caller awaits one of the fetch utilities
CallUtility(fn) ==
    /\ fn \in FetchUtilities
    /\ srvResult # Pending
    /\ srvCall' = [caller |-> "utility", fn |-> fn]
    /\ srvRequests' = 1
    /\ srvOutcome' = NoOutcome
    /\ srvResult' = Pending
    /\ srvPage' = "none"
    /\ UNCHANGED nonServerVars

\* a request for one of the pages whose content comes from one fetch
VisitServerPage(page) ==
    /\ page \in ServerPages
    /\ srvResult # Pending
    /\ srvCall' = [caller |-> page, fn |-> PageFetcher(page)]
    /\ srvRequests' = 1
    /\ srvOutcome' = NoOutcome
    /\ srvResult' = Pending
    /\ srvPage' = "none"
    /\ UNCHANGED nonServerVars

\* a request for a tag or category list page: the page itself calls fetch
VisitTagPage(page) ==
    /\ page \in TagPages
    /\ srvResult # Pending
    /\ srvCall' = [caller |-> page, fn |-> "fetch"]
    /\ srvRequests' = 1
    /\ srvOutcome' = NoOutcome
    /\ srvResult' = Pending
    /\ srvPage' = "none"
    /\ UNCHANGED nonServerVars

\* Next.js asks the blog post layout for its metadata
CallGenerateMetadata ==
    /\ srvResult # Pending
    /\ srvCall' = [caller |-> "generateMetadata", fn |-> "fetch"]
    /\ srvRequests' = 1
    /\ srvOutcome' = NoOutcome
    /\ srvResult' = Pending
    /\ srvPage' = "none"
    /\ UNCHANGED nonServerVars

\* what the page awaiting the fetch ends with once the fetch has settled as o
PageOutcome(caller, o) ==
    CASE caller = "FAQPage" -> FAQPage(o)
      [] caller = "EarnPage" -> EarnPage(o)
      [] caller = "MobileAppPage" -> MobileAppPage(o)
      [] caller = "BlogTagsPage" -> BlogTagsPage(o)
      [] caller = "BlogCategoriesPage" -> BlogCategoriesPage(o)
      [] caller = "NewsroomTagsPage" -> NewsroomTagsPage(o)
      [] caller = "NewsroomCategoriesPage" -> NewsroomCategoriesPage(o)
      [] caller = "generateMetadata" ->
            IF generateMetadata(o) = NotFoundThrown THEN "notFound"
            ELSE IF generateMetadata(o) = Rejected THEN "error"
            ELSE "none"
      [] OTHER -> "none"

\* what the awaited function hands to its caller once the fetch has settled as o
CallOutcome(call, o) ==
    IF call.caller = "generateMetadata" THEN generateMetadata(o)
    ELSE IF call.caller \in TagPages
    THEN IF PageOutcome(call.caller, o) = "error" THEN Rejected
         ELSE Resolved(DataOf(ResponseJson(o.body)))
    ELSE Resolved(UtilityResult(call.fn, o))

\* the fetch rejects (no connection, DNS failure, ...) and the rest of the
\* awaiting function runs
NetworkError ==
    /\ srvResult = Pending
    /\ srvOutcome' = NetworkFailure
    /\ srvResult' = CallOutcome(srvCall, NetworkFailure)
    /\ srvPage' = PageOutcome(srvCall.caller, NetworkFailure)
    /\ UNCHANGED <<srvCall, srvRequests>>
    /\ UNCHANGED nonServerVars

\* the CMS answers with an OK or an error status and some body, and the rest
\* of the awaiting function runs
ResponseArrives(ok, body) ==
    /\ srvResult = Pending
    /\ srvOutcome' = HttpResponse(ok, body)
    /\ srvResult' = CallOutcome(srvCall, HttpResponse(ok, body))
    /\ srvPage' = PageOutcome(srvCall.caller, HttpResponse(ok, body))
    /\ UNCHANGED <<srvCall, srvRequests>>
    /\ UNCHANGED nonServerVars

ServerNext ==
    \/ \E fn \in FetchUtilities : CallUtility(fn)
    \/ \E page \in ServerPages : VisitServerPage(page)
    \/ \E page \in TagPages : VisitTagPage(page)
    \/ CallGenerateMetadata
    \/ NetworkError
    \/ \E ok \in BOOLEAN, body \in Bodies : ResponseArrives(ok, body)

(***************************************************************************)
(* Chain, wallet and protocol search wrappers                              *)
(***************************************************************************)
ALL_CHAINS == "All chains"

\* the chain types the dropdown offers besides 'All chains'
CHAIN_TYPES == {"EVM", "UTXO"}

SEARCH_EMPTY_MESSAGE == "We couldn't find anything matching your search."

NO_CHAINS_MESSAGE == "No blockchain networks available yet."

NO_WALLETS_MESSAGE == "No wallets available yet."

NO_PROTOCOLS_MESSAGE == "No protocols available yet."

Wrappers == {"chain", "wallet", "protocol"}

\* the records the supported-chains / -wallets / -protocols page may hand to
\* its wrapper: chains carry typeOfChain, wallets and protocols isFeatured
ResourcePool ==
    { [name |-> <<"A", "b">>, typeOfChain |-> "EVM",  isFeatured |-> TRUE],
      [name |-> <<"b">>,      typeOfChain |-> "UTXO", isFeatured |-> FALSE],
      [name |-> <<"a", "a">>, typeOfChain |-> "EVM",  isFeatured |-> FALSE],
      [name |-> <<"B", "a">>, typeOfChain |-> "UTXO", isFeatured |-> TRUE] }

\* Boolean(searchQuery), !!searchQuery
IsSearchQuery(query) == query # <<>>

\* mutant: the dropdown value is ignored
ChainsByTypeAll(chains, type) == chains

\* const chainsByType = chains.filter(...)
ChainsByType(chains, type) ==
    SelectSeq(chains, LAMBDA chain : type = ALL_CHAINS \/ chain.typeOfChain = type)

\* the filter by name both handleSearch functions and filteredChains apply
FilterByName(list, query) ==
    SelectSeq(list, LAMBDA r : Includes(ToLowerCase(r.name), ToLowerCase(query)))

\* const filteredChains = chainsByType.filter(...)
FilteredChains(chains, query, type) == FilterByName(ChainsByType(chains, type), query)

\* mutant: the message does not depend on isSearchQuery
ChainListOneMessage(chains, isSearchQuery) ==
    ResourceGrid(Some(chains), FALSE, NO_CHAINS_MESSAGE)

\* ChainList({chains, isLoading, className, isSearchQuery})
ChainList(chains, isSearchQuery) ==
    ResourceGrid(Some(chains), FALSE,
                 IF isSearchQuery THEN SEARCH_EMPTY_MESSAGE ELSE NO_CHAINS_MESSAGE)

\* WalletList({wallets, isLoading, className, isSearchQuery})
WalletList(wallets, isSearchQuery) ==
    ResourceGrid(Some(wallets), FALSE,
                 IF isSearchQuery THEN SEARCH_EMPTY_MESSAGE ELSE NO_WALLETS_MESSAGE)

\* ProtocolList({protocols, isLoading, className, isSearchQuery})
ProtocolList(protocols, isSearchQuery) ==
    ResourceGrid(Some(protocols), FALSE,
                 IF isSearchQuery THEN SEARCH_EMPTY_MESSAGE ELSE NO_PROTOCOLS_MESSAGE)

Featured(list) == SelectSeq(list, LAMBDA r : r.isFeatured)

NonFeatured(list) == SelectSeq(list, LAMBDA r : ~r.isFeatured)

\* the lists ChainSearchWrapper renders
ChainSearchWrapper(chains, query, type) ==
    <<ChainList(FilteredChains(chains, query, type), IsSearchQuery(query))>>

\* the lists WalletSearchWrapper renders: the featured one only when it has
\* an entry, then the list of the others
WalletSearchWrapper(filteredWallets, query) ==
    (IF Len(Featured(filteredWallets)) > 0
     THEN <<WalletList(Featured(filteredWallets), IsSearchQuery(query))>> ELSE <<>>)
        \o <<WalletList(NonFeatured(filteredWallets), IsSearchQuery(query))>>

\* the lists ProtocolSearchWrapper renders
ProtocolSearchWrapper(filteredProtocols, query) ==
    (IF Len(Featured(filteredProtocols)) > 0
     THEN <<ProtocolList(Featured(filteredProtocols), IsSearchQuery(query))>> ELSE <<>>)
        \o <<ProtocolList(NonFeatured(filteredProtocols), IsSearchQuery(query))>>

\* the lists the mounted wrapper renders
RenderedLists ==
    CASE wrapper = "chain" -> ChainSearchWrapper(resources, wrapperQuery, selectedType)
      [] wrapper = "wallet" -> WalletSearchWrapper(filteredResources, wrapperQuery)
      [] wrapper = "protocol" -> ProtocolSearchWrapper(filteredResources, wrapperQuery)
      [] OTHER -> <<>>

\* ChainSearchWrapper.handleSearch(query)
ChainHandleSearch(query) ==
    /\ wrapper = "chain"
    /\ query # wrapperQuery
    /\ wrapperQuery' = query
    /\ wrapperEvt' = "search"
    /\ UNCHANGED <<wrapper, resources, selectedType, filteredResources>>
    /\ UNCHANGED nonSearchVars

\* the Dropdown calls setSelectedType
SetSelectedType(type) ==
    /\ wrapper = "chain"
    /\ type # selectedType
    /\ selectedType' = type
    /\ wrapperEvt' = "type"
    /\ UNCHANGED <<wrapper, resources, wrapperQuery, filteredResources>>
    /\ UNCHANGED nonSearchVars

\* WalletSearchWrapper.handleSearch(query)
WalletHandleSearch(query) ==
    /\ wrapper = "wallet"
    /\ query # wrapperQuery
    /\ wrapperQuery' = query
    /\ filteredResources' = FilterByName(resources, query)
    /\ wrapperEvt' = "search"
    /\ UNCHANGED <<wrapper, resources, selectedType>>
    /\ UNCHANGED nonSearchVars

\* ProtocolSearchWrapper.handleSearch(query)
ProtocolHandleSearch(query) ==
    /\ wrapper = "protocol"
    /\ query # wrapperQuery
    /\ wrapperQuery' = query
    /\ filteredResources' = FilterByName(resources, query)
    /\ wrapperEvt' = "search"
    /\ UNCHANGED <<wrapper, resources, selectedType>>
    /\ UNCHANGED nonSearchVars

SearchNext ==
    \/ \E query \in Queries : ChainHandleSearch(query)
    \/ \E type \in CHAIN_TYPES \cup {ALL_CHAINS} : SetSelectedType(type)
    \/ \E query \in Queries : WalletHandleSearch(query)
    \/ \E query \in Queries : ProtocolHandleSearch(query)

(***************************************************************************)
(* BlogNav and NewsroomNav                                                 *)
(***************************************************************************)
\* Path names and route parameters are sequences of tokens: "/" and the fixed
\* segment names count as one token each, a slug is made of SlugTokens.
MaxSlugLen == 2

SlugTokens == Chars \cup {"tags", "all"}

RECURSIVE SlugsUpTo(_)
SlugsUpTo(n) ==
    IF n = 0 THEN {<<>>}
    ELSE LET shorter == SlugsUpTo(n - 1)
         IN  shorter \cup {Append(s, c) : s \in shorter, c \in SlugTokens}

\* the slugs a URL may carry as its [category] or [tag] segment
RouteSlugs == SlugsUpTo(MaxSlugLen) \ {<<>>}

\* scaled-down stand-ins of the tab lists in the constants file; every list
\* starts with its 'all' tab
blogTypes == << [slug |-> <<"all">>], [slug |-> <<"a", "b">>], [slug |-> <<"b">>] >>

blogTags == << [slug |-> <<"all">>], [slug |-> <<"a">>], [slug |-> <<"b", "a">>] >>

newsroomCategories == << [slug |-> <<"all">>], [slug |-> <<"b", "b">>], [slug |-> <<"a">>] >>

newsroomTags == << [slug |-> <<"all">>], [slug |-> <<"a", "a">>], [slug |-> <<"b">>] >>

NavSections == {"blog", "newsroom"}

NavRoutes == {"index", "category", "tags", "tag"}

\* usePathname() on the route of the given kind
PathnameOf(section, route, slug) ==
    <<"/", section>> \o
        CASE route = "index" -> <<>>
          [] route = "category" -> <<"/", "categories", "/">> \o slug
          [] route = "tags" -> <<"/", "tags">>
          [] route = "tag" -> <<"/", "tags", "/">> \o slug

\* useParams() on the route of the given kind; a missing parameter is undefined
ParamsOf(route, slug) ==
    [category |-> IF route = "category" THEN Some(slug) ELSE NULL,
     tag |-> IF route = "tag" THEN Some(slug) ELSE NULL]

\* (params.x as string) || ''
ParamOrEmpty(param) == IF param = NULL THEN <<>> ELSE param.some

\* selected={param ? param.toLowerCase() === tab.slug.toLowerCase() : 'all' === tab.slug}
TabSelected(param, tab) ==
    IF param # <<>> THEN ToLowerCase(param) = ToLowerCase(tab.slug) ELSE <<"all">> = tab.slug

\* the tabs a navigation renders: which list, and for each tab whether it is selected
NavTabs(kind, list, param) ==
    [kind |-> kind, tabs |-> [i \in 1..Len(list) |-> [slug |-> list[i].slug,
                                                        selected |-> TabSelected(param, list[i])]]]

\* BlogNav()
BlogNav(path, routeParams) ==
    LET category == ParamOrEmpty(routeParams.category)
        tag == ParamOrEmpty(routeParams.tag)
    IN  IF tag # <<>> \/ Includes(path, <<"/", "tags">>)
        THEN NavTabs("tags", blogTags, tag)
        ELSE NavTabs("categories", blogTypes, category)

\* NewsroomNav()
NewsroomNav(path, routeParams) ==
    LET category == ParamOrEmpty(routeParams.category)
        tag == ParamOrEmpty(routeParams.tag)
    IN  IF tag # <<>> \/ Includes(path, <<"/", "tags">>)
        THEN NavTabs("tags", newsroomTags, tag)
        ELSE NavTabs("categories", newsroomCategories, category)

\* what the navigation of the current section renders
RenderedNav ==
    IF navSection = "blog" THEN BlogNav(pathname, navParams) ELSE NewsroomNav(pathname, navParams)

\* navigation to the index page of a section (/blog, /newsroom)
VisitIndex(section) ==
    /\ navSection' = section
    /\ navRoute' = "index"
    /\ pathname' = PathnameOf(section, "index", <<>>)
    /\ navParams' = ParamsOf("index", <<>>)
    /\ pathname' # pathname
    /\ UNCHANGED nonNavVars

\* navigation to a category page (/blog/categories/[category], ...)
VisitCategory(section, slug) ==
    /\ navSection' = section
    /\ navRoute' = "category"
    /\ pathname' = PathnameOf(section, "category", slug)
    /\ navParams' = ParamsOf("category", slug)
    /\ pathname' # pathname
    /\ UNCHANGED nonNavVars

\* navigation to the page of all tags (/blog/tags, ...)
VisitTags(section) ==
    /\ navSection' = section
    /\ navRoute' = "tags"
    /\ pathname' = PathnameOf(section, "tags", <<>>)
    /\ navParams' = ParamsOf("tags", <<>>)
    /\ pathname' # pathname
    /\ UNCHANGED nonNavVars

\* navigation to the page of one tag (/blog/tags/[tag], ...)
VisitTag(section, slug) ==
    /\ navSection' = section
    /\ navRoute' = "tag"
    /\ pathname' = PathnameOf(section, "tag", slug)
    /\ navParams' = ParamsOf("tag", slug)
    /\ pathname' # pathname
    /\ UNCHANGED nonNavVars

NavNext ==
    \/ \E section \in NavSections : VisitIndex(section)
    \/ \E section \in NavSections, slug \in RouteSlugs : VisitCategory(section, slug)
    \/ \E section \in NavSections : VisitTags(section)
    \/ \E section \in NavSections, slug \in RouteSlugs : VisitTag(section, slug)

(***************************************************************************)
(* Legacy-URL redirects: nextConfig.redirects()                            *)
(***************************************************************************)
\* how many redirects a browser is followed through at most
MaxHops == 3

\* the values tried for a `:slug` segment of a requested path
RedirectSlugs == {"solana", "library", "blog", "thorchain"}

\* the table in declaration order; paths are their segments, an external
\* destination is one segment holding the URL, a destination without a
\* leading slash is relative
redirects == <<
    [source |-> <<"library">>, kind |-> "absolute", destination |-> <<"blog">>],
    [source |-> <<"library", ":slug">>, kind |-> "absolute", destination |-> <<"blog", ":slug">>],
    [source |-> <<"category", ":slug">>, kind |-> "absolute", destination |-> <<"blog", "categories", ":slug">>],
    [source |-> <<"tag", ":slug">>, kind |-> "absolute", destination |-> <<"blog", "tags", ":slug">>],
    [source |-> <<"newsletter">>, kind |-> "absolute", destination |-> <<"newsroom">>],
    [source |-> <<"newsletter-french">>, kind |-> "absolute", destination |-> <<"newsroom">>],
    [source |-> <<"newsletter-portuguese">>, kind |-> "absolute", destination |-> <<"newsroom">>],
    [source |-> <<"newsletter-spanish">>, kind |-> "absolute", destination |-> <<"newsroom">>],
    [source |-> <<"supported-assets">>, kind |-> "absolute", destination |-> <<"supported-chains">>],
    [source |-> <<"solana">>, kind |-> "absolute", destination |-> <<"supported-chains", "solana">>],
    [source |-> <<"optimism">>, kind |-> "absolute", destination |-> <<"supported-chains", "optimism">>],
    [source |-> <<"polygon">>, kind |-> "absolute", destination |-> <<"supported-chains", "polygon">>],
    [source |-> <<"avalanche">>, kind |-> "absolute", destination |-> <<"supported-chains", "avalanche">>],
    [source |-> <<"ethereum">>, kind |-> "absolute", destination |-> <<"supported-chains", "ethereum">>],
    [source |-> <<"bitcoin">>, kind |-> "absolute", destination |-> <<"supported-chains", "bitcoin">>],
    [source |-> <<"arbitrum">>, kind |-> "absolute", destination |-> <<"supported-chains", "arbitrum">>],
    [source |-> <<"dogecoin">>, kind |-> "absolute", destination |-> <<"supported-chains", "dogecoin">>],
    [source |-> <<"fox">>, kind |-> "absolute", destination |-> <<"supported-chains", "fox">>],
    [source |-> <<"atom">>, kind |-> "absolute", destination |-> <<"supported-chains", "cosmos">>],
    [source |-> <<"binance-chain">>, kind |-> "absolute", destination |-> <<"supported-chains", "binance-chain">>],
    [source |-> <<"rune">>, kind |-> "absolute", destination |-> <<"supported-chains", "rune">>],
    [source |-> <<"base">>, kind |-> "absolute", destination |-> <<"supported-chains", "base">>],
    [source |-> <<"thorchain">>, kind |-> "absolute", destination |-> <<"supported-chains", "thorchain">>],
    [source |-> <<"buy-and-sell-bitcoin">>, kind |-> "absolute", destination |-> <<"supported-chains", "bitcoin">>],
    [source |-> <<"reports", "algorithmic-stablecoins">>, kind |-> "absolute", destination |-> <<"reports", "algorithmic-stablecoins.pdf">>],
    [source |-> <<"reports", "decentralized-insurance">>, kind |-> "absolute", destination |-> <<"reports", "decentralized-insurance.pdf">>],
    [source |-> <<"reports", "enter-the-metaverse">>, kind |-> "absolute", destination |-> <<"reports", "enter-the-metaverse.pdf">>],
    [source |-> <<"reports", "new-frontiers">>, kind |-> "absolute", destination |-> <<"reports", "new-frontiers.pdf">>],
    [source |-> <<"reports", "yield-unchained">>, kind |-> "absolute", destination |-> <<"reports", "yield-unchained.pdf">>],
    [source |-> <<"earn-crypto">>, kind |-> "absolute", destination |-> <<"earn">>],
    [source |-> <<"research">>, kind |-> "absolute", destination |-> <<"blog">>],
    [source |-> <<"faqs">>, kind |-> "absolute", destination |-> <<"faq">>],
    [source |-> <<"android-notify">>, kind |-> "absolute", destination |-> <<"mobile-app">>],
    [source |-> <<"download">>, kind |-> "absolute", destination |-> <<"mobile-app">>],
    [source |-> <<"br">>, kind |-> "absolute", destination |-> <<>>],
    [source |-> <<"feature-requests">>, kind |-> "external", destination |-> <<"https://shapeshift.canny.io">>],
    [source |-> <<"wallet-connect">>, kind |-> "relative", destination |-> <<"resources", "supported-wallets", "wallet-connect">>],
    [source |-> <<"ledger">>, kind |-> "relative", destination |-> <<"resources", "supported-wallets", "ledger">>],
    [source |-> <<"coinbase-wallet">>, kind |-> "relative", destination |-> <<"resources", "supported-wallets", "coinbase-wallet">>],
    [source |-> <<"phantom-wallet">>, kind |-> "relative", destination |-> <<"resources", "supported-wallets", "phantom">>],
    [source |-> <<"keplr">>, kind |-> "relative", destination |-> <<"resources", "supported-wallets", "keplr">>],
    [source |-> <<"trust-wallet">>, kind |-> "relative", destination |-> <<"resources", "supported-wallets", "trust-wallet">>],
    [source |-> <<"rabby-wallet">>, kind |-> "relative", destination |-> <<"resources", "supported-wallets", "rabby">>],
    [source |-> <<"1inch-wallet">>, kind |-> "relative", destination |-> <<"resources", "supported-wallets", "1inch-wallet">>],
    [source |-> <<"frame-wallet">>, kind |-> "relative", destination |-> <<"resources", "supported-wallets", "frame">>],
    [source |-> <<"zerion-wallet">>, kind |-> "relative", destination |-> <<"resources", "supported-wallets", "zerion">>],
    [source |-> <<"rainbow-wallet">>, kind |-> "relative", destination |-> <<"resources", "supported-wallets", "rainbow">>],
    [source |-> <<"safe-wallet">>, kind |-> "relative", destination |-> <<"resources", "supported-wallets", "safe-wallet">>],
    [source |-> <<"dao-privacy-policy">>, kind |-> "absolute", destination |-> <<"privacy-policy">>],
    [source |-> <<"recruitment-privacy-policy">>, kind |-> "absolute", destination |-> <<"privacy-policy">>],
    [source |-> <<"privacy">>, kind |-> "absolute", destination |-> <<"privacy-policy">>],
    [source |-> <<"dao-terms-of-service">>, kind |-> "absolute", destination |-> <<"terms-of-service">>],
    [source |-> <<"social-promotion-rules">>, kind |-> "absolute", destination |-> <<"terms-of-service">>],
    [source |-> <<"responsible-disclosure-program">>, kind |-> "absolute", destination |-> <<"terms-of-service">>],
    [source |-> <<"waitlist", "thank-you">>, kind |-> "absolute", destination |-> <<>>],
    [source |-> <<"waitlist">>, kind |-> "absolute", destination |-> <<>>],
    [source |-> <<"wallet", "apps">>, kind |-> "absolute", destination |-> <<>>],
    [source |-> <<"wallet-backup">>, kind |-> "absolute", destination |-> <<>>],
    [source |-> <<"dao-resources">>, kind |-> "absolute", destination |-> <<>>],
    [source |-> <<"shapeshift-decentralize-airdrop">>, kind |-> "absolute", destination |-> <<>>],
    [source |-> <<"thorchain", "liquidity-pools">>, kind |-> "absolute", destination |-> <<"discover", "liquidity-pools">>],
    [source |-> <<"thorchain", "streaming-swaps">>, kind |-> "absolute", destination |-> <<"discover", "streaming-swaps">>],
    [source |-> <<"thorchain", "lend-borrow">>, kind |-> "absolute", destination |-> <<"discover", "lend-borrow">>],
    [source |-> <<"thorchain", "trade">>, kind |-> "absolute", destination |-> <<"discover", "trade">>],
    [source |-> <<"thorchain", "saver-vaults">>, kind |-> "absolute", destination |-> <<"discover", "saver-vaults">>],
    [source |-> <<"apple-app-store">>, kind |-> "external", destination |-> <<"https://apps.apple.com/us/app/shapeshift-crypto-platform/id996569075">>],
    [source |-> <<"google-play-store">>, kind |-> "external", destination |-> <<"https://play.google.com/store/apps/details?id=com.shapeshift.droid_shapeshift&hl=en_US&gl=US">>]
>>

\* mutant: every segment of a source is taken for a parameter
MatchesSourceAnySegment(source, path) == Len(source) = Len(path)

\* a source matches a path segment by segment; `:slug` matches any one segment
MatchesSource(source, path) ==
    /\ Len(source) = Len(path)
    /\ \A i \in DOMAIN source : source[i] = ":slug" \/ source[i] = path[i]

\* the index of the first rule whose source matches the path, 0 when none does
FirstMatch(path) ==
    IF \E i \in DOMAIN redirects : MatchesSource(redirects[i].source, path)
    THEN CHOOSE i \in DOMAIN redirects :
            /\ MatchesSource(redirects[i].source, path)
            /\ \A j \in 1..(i - 1) : ~MatchesSource(redirects[j].source, path)
    ELSE 0

\* a path with its `:slug` segment filled in
Instantiate(segments, slug) ==
    [i \in DOMAIN segments |-> IF segments[i] = ":slug" THEN slug ELSE segments[i]]

\* the URL the browser requests next: the rule's destination with the matched
\* `:slug` filled in; a relative destination is resolved against the
\* requested path, whose last segment it replaces
Destination(rule, path) ==
    LET slug == IF \E k \in DOMAIN rule.source : rule.source[k] = ":slug"
                THEN path[CHOOSE k \in DOMAIN rule.source : rule.source[k] = ":slug"]
                ELSE ""
        target == Instantiate(rule.destination, slug)
    IN  IF rule.kind = "external" THEN [onSite |-> FALSE, segments |-> target]
        ELSE IF rule.kind = "absolute" THEN [onSite |-> TRUE, segments |-> target]
        ELSE [onSite |-> TRUE, segments |-> SubSeq(path, 1, Len(path) - 1) \o target]

\* the paths a user requests: every source with its parameter filled in, the
\* home page and one-segment paths
RequestPaths ==
    {Instantiate(redirects[i].source, s) : i \in DOMAIN redirects, s \in RedirectSlugs}
        \cup {<<>>} \cup {<<s>> : s \in RedirectSlugs}

\* the table answers a request with a redirect and the browser follows it
FollowRedirect ==
    /\ requestUrl.onSite
    /\ FirstMatch(requestUrl.segments) # 0
    /\ hops < MaxHops
    /\ requestUrl' = Destination(redirects[FirstMatch(requestUrl.segments)], requestUrl.segments)
    /\ hops' = hops + 1
    /\ redirectEvt' = "redirect"
    /\ UNCHANGED nonRedirectVars

\* no source matches: the request goes on to the site's routes
ServePage ==
    /\ requestUrl.onSite
    /\ FirstMatch(requestUrl.segments) = 0
    /\ redirectEvt # "served"
    /\ redirectEvt' = "served"
    /\ UNCHANGED <<requestUrl, hops>>
    /\ UNCHANGED nonRedirectVars

RedirectNext ==
    \/ FollowRedirect
    \/ ServePage

(***************************************************************************)
(* Specifications: one per part of the site; the other parts stay parked.  *)
(***************************************************************************)
vars == <<discover, searchQuery, gridProps, gridOut, activeSection, sectionRefs,
          isManualScrolling, rafId, pendingFrames, nextFrameId, timers, scrollY,
          lastClicked, faqEvt, listening, cache, view, issued, lastGet, inflight, blogEvt,
          srvCall, srvRequests, srvOutcome, srvResult, srvPage,
          wrapper, resources, wrapperQuery, selectedType, filteredResources, wrapperEvt,
          navSection, navRoute, pathname, navParams, requestUrl, hops, redirectEvt>>

GridParked ==
    /\ gridProps = [items |-> NULL, isLoading |-> TRUE, emptyMessage |-> UNDEFINED]
    /\ gridOut = ResourceGrid(NULL, TRUE, UNDEFINED)

DiscoverParked == discover = NULL /\ searchQuery = <<>>

FaqParked ==
    /\ sectionRefs = <<>>
    /\ activeSection = ""
    /\ isManualScrolling = FALSE
    /\ rafId = 0
    /\ pendingFrames = {}
    /\ nextFrameId = 1
    /\ timers = <<>>
    /\ scrollY = 0
    /\ lastClicked = ""
    /\ faqEvt = "parked"
    /\ listening = FALSE

BlogParked ==
    /\ cache = [t \in Types |-> <<>>]
    /\ view = NoView
    /\ issued = 0
    /\ lastGet = NoGet
    /\ inflight = {}
    /\ blogEvt = Evt("start", FALSE)

ServerParked ==
    /\ srvCall = NoCall
    /\ srvRequests = 0
    /\ srvOutcome = NoOutcome
    /\ srvResult = Resolved(NULL)
    /\ srvPage = "none"

SearchParked ==
    /\ wrapper = "none"
    /\ resources = <<>>
    /\ wrapperQuery = <<>>
    /\ selectedType = ALL_CHAINS
    /\ filteredResources = <<>>
    /\ wrapperEvt = "parked"

RedirectParked ==
    /\ requestUrl = [onSite |-> TRUE, segments |-> <<>>]
    /\ hops = 0
    /\ redirectEvt = "parked"

NavParked ==
    /\ navSection = "none"
    /\ navRoute = "none"
    /\ pathname = <<"/">>
    /\ navParams = ParamsOf("none", <<>>)

InitDiscover ==
    /\ discover \in {Some(l) : l \in ListsUpTo(DiscoverPool, MaxItems)} \cup {NULL}
    /\ searchQuery = <<>>
    /\ GridParked /\ FaqParked /\ BlogParked /\ ServerParked /\ SearchParked /\ NavParked
    /\ RedirectParked

SpecDiscover == InitDiscover /\ [][DiscoverNext]_vars

InitGrid ==
    /\ gridProps = [items |-> NULL, isLoading |-> TRUE, emptyMessage |-> UNDEFINED]
    /\ gridOut = ResourceGrid(NULL, TRUE, UNDEFINED)
    /\ DiscoverParked /\ FaqParked /\ BlogParked /\ ServerParked /\ SearchParked /\ NavParked
    /\ RedirectParked

SpecGrid == InitGrid /\ [][GridNext]_vars

\* the state once FAQContent has mounted: the refs are set and the effect has
\* called handleScroll() once, which requested the first frame
InitFaq ==
    /\ \E n \in 0..MaxSections :
          sectionRefs = [i \in 1..n |-> [title |-> AllTitles[i], element |-> TRUE]]
    /\ activeSection = ""
    /\ isManualScrolling = FALSE
    /\ rafId = 1
    /\ pendingFrames = {1}
    /\ nextFrameId = 2
    /\ timers = <<>>
    /\ scrollY = 0
    /\ lastClicked = ""
    /\ faqEvt = "mount"
    /\ listening = TRUE
    /\ DiscoverParked /\ GridParked /\ BlogParked /\ ServerParked /\ SearchParked /\ NavParked
    /\ RedirectParked

SpecFaq == InitFaq /\ [][FaqNext]_vars

\* the FAQ page with timers that fire: a timeout that is pending is eventually
\* run by the browser's event loop
SpecFaqFair == InitFaq /\ [][FaqNext]_vars /\ WF_vars(TimerFires)

\* the cached-posts contexts start empty and no page component is mounted
InitBlog ==
    /\ cache = [t \in Types |-> <<>>]
    /\ view = NoView
    /\ issued = 0
    /\ lastGet = NoGet
    /\ inflight = {}
    /\ blogEvt = Evt("start", FALSE)
    /\ DiscoverParked /\ GridParked /\ FaqParked /\ ServerParked /\ SearchParked /\ NavParked
    /\ RedirectParked

SpecBlog == InitBlog /\ [][BlogNext]_vars

\* no server-side call has been made yet
InitServer ==
    /\ srvCall = NoCall
    /\ srvRequests = 0
    /\ srvOutcome = NoOutcome
    /\ srvResult = Resolved(NULL)
    /\ srvPage = "none"
    /\ DiscoverParked /\ GridParked /\ FaqParked /\ BlogParked /\ SearchParked /\ NavParked
    /\ RedirectParked

SpecServer == InitServer /\ [][ServerNext]_vars

\* a search wrapper has mounted with the list its page fetched: the query is
\* empty, 'All chains' is selected and the filtered list is the whole list
InitSearch ==
    /\ wrapper \in Wrappers
    /\ resources \in ListsUpTo(ResourcePool, MaxItems)
    /\ wrapperQuery = <<>>
    /\ selectedType = ALL_CHAINS
    /\ filteredResources = resources
    /\ wrapperEvt = "mount"
    /\ DiscoverParked /\ GridParked /\ FaqParked /\ BlogParked /\ ServerParked /\ NavParked
    /\ RedirectParked

SpecSearch == InitSearch /\ [][SearchNext]_vars

\* the visitor is on the blog index page
InitNav ==
    /\ navSection = "blog"
    /\ navRoute = "index"
    /\ pathname = PathnameOf("blog", "index", <<>>)
    /\ navParams = ParamsOf("index", <<>>)
    /\ DiscoverParked /\ GridParked /\ FaqParked /\ BlogParked /\ ServerParked
    /\ SearchParked /\ RedirectParked

SpecNav == InitNav /\ [][NavNext]_vars

\* a user requests a path of the site
InitRedirect ==
    /\ \E path \in RequestPaths : requestUrl = [onSite |-> TRUE, segments |-> path]
    /\ hops = 0
    /\ redirectEvt = "request"
    /\ DiscoverParked /\ GridParked /\ FaqParked /\ BlogParked /\ ServerParked
    /\ SearchParked /\ NavParked

SpecRedirect == InitRedirect /\ [][RedirectNext]_vars

(***************************************************************************)
(* Properties                                                              *)
(***************************************************************************)

\* C1: a blog / newsroom detail page that mounts while the cached list of its
\* content type holds the requested slug calls the hook with skip = true,
\* issues no GET and shows the article (neither skeleton nor not-found).
C1_CachedDetailSkipsFetch ==
    (view.kind = "detail" /\ view.cachedAtMount) =>
        /\ view.skipped
        /\ view.fetched = {}
        /\ ~\E r \in inflight : r.current
        /\ PageView = "article"

C1_Witness ==
    /\ view.kind = "detail"
    /\ view.cachedAtMount
    /\ issued > 0
    /\ PageView = "article"

C3_NextClicksReachPage ==
    (/\ view.kind = "list"
     /\ ~view.isLoading
     /\ ~view.failed
     /\ ~view.otherClicks
     /\ view.nextClicks \in 1..(view.pageCount - 1))
    => (view.page = view.nextClicks + 1 /\ (view.nextClicks + 1) \in view.fetched)

\* C4: the discover filter keeps exactly the items whose title or tag contains
\* the search string, letters compared without regard to case, in their
\* original order; the empty search string keeps the whole list.
SameLetter(c, d) == c = d \/ {c, d} = {"a", "A"} \/ {c, d} = {"b", "B"}

ContainsIgnoringCase(text, q) ==
    \E i \in 0..(Len(text) - Len(q)) : \A j \in 1..Len(q) : SameLetter(text[i + j], q[j])

Wanted(item, q) == ContainsIgnoringCase(item.title, q) \/ ContainsIgnoringCase(item.tag, q)

C5_GridEmptyStateOrCards ==
    ~gridProps.isLoading =>
        IF gridProps.items = NULL \/ gridProps.items = Some(<<>>)
        THEN /\ gridOut.messages =
                   <<IF gridProps.emptyMessage = UNDEFINED THEN "No items available yet."
                     ELSE gridProps.emptyMessage>>
             /\ gridOut.renderCalls = 0
             /\ gridOut.cards = <<>>
        ELSE /\ gridOut.messages = <<>>
             /\ gridOut.renderCalls = Len(gridProps.items.some)
             /\ Len(gridOut.cards) = Len(gridProps.items.some)
             /\ \A i \in 1..Len(gridOut.cards) : gridOut.cards[i].card = gridProps.items.some[i]

C5_Witness ==
    /\ ~gridProps.isLoading
    /\ gridProps.items = Some(<<>>)
    /\ gridProps.emptyMessage # UNDEFINED
    /\ gridOut.messages = <<gridProps.emptyMessage>>

C7_OneGetPerParameterChange ==
    [][view'.kind = "list" =>
          IF \/ blogEvt'.name = "mount"
             \/ view'.page # view.page
             \/ view'.tag # view.tag
             \/ view'.category # view.category
             \/ view'.ctype # view.ctype
          THEN /\ issued' = issued + 1
               /\ lastGet' = [ctype |-> view'.ctype,
                              params |-> [page |-> view'.page, pageSize |-> PAGE_SIZE,
                                          tag |-> view'.tag, category |-> view'.category,
                                          slug |-> NO_SLUG]]
          ELSE issued' = issued]_vars

C7_Witness ==
    /\ view.kind = "list"
    /\ blogEvt.name = "click"
    /\ view.isLoading
    /\ lastGet.params.page = 3
    /\ issued = 2

\* C8: the cached list of each content type only grows: a slug that is in
\* the cache stays in it in every later state.
C8_CacheOnlyGrows ==
    [][\A t \in Types : \A slug \in 0..MaxPosts :
          InList(cache[t], slug) => InList(cache'[t], slug)]_vars

C8_Witness ==
    /\ blogEvt.name = "responseOk"
    /\ ~blogEvt.current
    /\ \E t \in Types : Len(cache[t]) > PAGE_SIZE

\* C9: after a click on the sidebar link of an existing section, activeSection
\* is the clicked title for as long as isManualScrolling is set, whatever
\* scroll events and animation-frame callbacks occur.
C9_ClickedSectionStaysActive ==
    isManualScrolling => activeSection = lastClicked

ExpectedData(fn, json) ==
    IF fn = "fetchDiscoverBySlug" THEN OptionalFirst(json.data) ELSE json.data

\* the fetch failed, the status is not OK, the body is not JSON or holds no data
FetchFailed(fn, o) ==
    \/ ~o.network
    \/ ~o.ok
    \/ ~o.body.parses
    \/ o.body.json = NULL
    \/ ~Truthy(ExpectedData(fn, o.body.json))

\* C11: a settled call of a fetch utility has made exactly one request and has
\* resolved (never rejected): to null after a network error, a non-OK status,
\* an unparseable body or missing data, and to the response's data otherwise.
C11_UtilityResolvesDataOrNull ==
    (srvCall.caller = "utility" /\ srvResult # Pending) =>
        /\ srvRequests = 1
        /\ srvResult # Rejected
        /\ srvResult = IF FetchFailed(srvCall.fn, srvOutcome) THEN Resolved(NULL)
                       ELSE Resolved(ExpectedData(srvCall.fn, srvOutcome.body.json))

\* the slugs held by a list of posts
SlugSet(list) == {list[i] : i \in 1..Len(list)}

HasDuplicate(list) == \E i, j \in 1..Len(list) : i < j /\ list[i] = list[j]

\* C12: whenever the response of a GET arrives, with other GETs still in flight
\* or not and in whatever order, the cached list of its content type holds
\* afterwards exactly the slugs it held before plus the slugs of the response,
\* and the other cached lists are untouched: no arrival order loses an item,
\* the orders differ at most in duplicate entries.
C12_ConcurrentResponsesLoseNothing ==
    [][(blogEvt'.name = "responseOk") =>
          \E r \in inflight :
              /\ inflight' = inflight \ {r}
              /\ SlugSet(cache'[r.ctype])
                     = SlugSet(cache[r.ctype]) \cup SlugSet(CmsResponse(r.params).data)
              /\ \A t \in Types \ {r.ctype} : cache'[t] = cache[t]]_vars

\* two GETs were in flight together, both responses have arrived and the
\* slug they share is cached twice
C12_Witness ==
    /\ inflight = {}
    /\ issued = 2
    /\ blogEvt.name = "responseOk"
    /\ \E t \in Types : HasDuplicate(cache[t])

\* the validation fetch failed or its body holds no post
NoPostsFetched(o) ==
    \/ ~o.network
    \/ ~o.body.parses
    \/ o.body.json = NULL
    \/ ~Truthy(o.body.json.data)
    \/ o.body.json.data = Some(<<>>)

\* the validation fetch succeeded with at least one post
PostsFetched(o) ==
    /\ o.network /\ o.ok /\ o.body.parses /\ o.body.json # NULL
    /\ IsArray(o.body.json.data)
    /\ Len(o.body.json.data.some) > 0

\* C13: a tag or category list page whose validation fetch has settled ends
\* with the not-found page when the fetch failed or returned no post (an empty
\* data array included), and renders ListOfPosts only when a post exists.
C13_TagPageNotFoundWithoutPosts ==
    (srvCall.caller \in TagPages /\ srvResult # Pending) =>
        /\ NoPostsFetched(srvOutcome) => srvPage = "notFound"
        /\ srvPage = "ListOfPosts" => ~NoPostsFetched(srvOutcome)
        /\ PostsFetched(srvOutcome) => srvPage = "ListOfPosts"

\* the post the CMS response holds for the requested slug, if any
MetadataPostFound(o) ==
    /\ o.network /\ o.ok /\ o.body.parses /\ o.body.json # NULL
    /\ IsArray(o.body.json.data)
    /\ Len(o.body.json.data.some) > 0

\* the CMS answered, and its response holds no post for the requested slug
MetadataPostMissing(o) ==
    /\ o.network /\ o.ok /\ o.body.parses /\ o.body.json # NULL
    /\ o.body.json.data = Some(<<>>)

\* C14: generateMetadata of the blog post layout resolves to an empty
\* metadata object when the CMS holds no post with the requested slug, and to
\* the title / description / OpenGraph / Twitter metadata of the post when it
\* holds one.
C14_MetadataEmptyWhenPostMissing ==
    (srvCall.caller = "generateMetadata" /\ srvResult # Pending) =>
        /\ MetadataPostMissing(srvOutcome) => srvResult = Resolved(EmptyMetadata)
        /\ (MetadataPostFound(srvOutcome) /\ srvOutcome.body.json.data.some[1].featuredImg)
              => srvResult = Resolved(PostMetadata(srvOutcome.body.json.data.some[1]))

\* C15: whenever no item matches the search string, or the discover list is
\* empty or null, the discover search wrapper shows an empty-state message
\* below the search bar.
C15_DiscoverShowsEmptyState ==
    LET out == DiscoverSearchWrapper(discover, searchQuery)
        nothing == \/ discover = NULL
                   \/ FilteredDiscover(discover, searchQuery) = Some(<<>>)
    IN  nothing => (out.searchBar /\ Len(out.messages) > 0)

\* the cards of a rendered list, as the records they were built from
CardsOf(grid) == [i \in 1..Len(grid.cards) |-> grid.cards[i].card]

\* C16: the chain search wrapper displays exactly the chains whose typeOfChain
\* is the selected type (every chain under 'All chains') and whose name
\* contains the current query without regard to case, in their original
\* order, whatever search and dropdown changes led to the current pair; with
\* the empty query and 'All chains' it displays the whole list.
C16_ChainsMatchQueryAndType ==
    wrapper = "chain" =>
        LET shown == CardsOf(ChainSearchWrapper(resources, wrapperQuery, selectedType)[1])
            kept == {i \in 1..Len(resources) :
                        /\ selectedType = ALL_CHAINS \/ resources[i].typeOfChain = selectedType
                        /\ ContainsIgnoringCase(resources[i].name, wrapperQuery)}
        IN  /\ Len(shown) = Cardinality(kept)
            /\ \A i \in kept : shown[Cardinality({j \in kept : j <= i})] = resources[i]
            /\ (wrapperQuery = <<>> /\ selectedType = ALL_CHAINS) => shown = resources

\* a type was picked after a mixed-case query was typed, and one of two chains
\* is displayed
C16_Witness ==
    /\ wrapper = "chain"
    /\ wrapperEvt = "type"
    /\ selectedType # ALL_CHAINS
    /\ ToLowerCase(wrapperQuery) # wrapperQuery
    /\ Len(resources) = 2
    /\ Len(ChainSearchWrapper(resources, wrapperQuery, selectedType)[1].cards) = 1

\* C19: every empty-state message a chain, wallet or protocol list shows is
\* "We couldn't find anything matching your search." when the search string
\* is non-empty and the list's 'No ... available yet.' message when it is
\* empty, after any sequence of edits of the search box.
C19_EmptyMessageFollowsQuery ==
    wrapper \in Wrappers =>
        LET expected ==
                IF wrapperQuery # <<>> THEN SEARCH_EMPTY_MESSAGE
                ELSE CASE wrapper = "chain" -> NO_CHAINS_MESSAGE
                       [] wrapper = "wallet" -> NO_WALLETS_MESSAGE
                       [] wrapper = "protocol" -> NO_PROTOCOLS_MESSAGE
        IN  \A k \in 1..Len(RenderedLists) :
                /\ RenderedLists[k].kind = "empty" => RenderedLists[k].messages = <<expected>>
                /\ RenderedLists[k].kind # "empty" => RenderedLists[k].messages = <<>>

\* the search box of a non-empty list was cleared again and, nothing being
\* left in the list below, the 'No ... available yet.' message is shown
C19_Witness ==
    /\ wrapper = "wallet"
    /\ wrapperEvt = "search"
    /\ wrapperQuery = <<>>
    /\ Len(resources) > 0
    /\ RenderedLists[Len(RenderedLists)].messages = <<NO_WALLETS_MESSAGE>>

\* the fetch of the call did not deliver: network error, error status or a
\* body that is not JSON
FetchDidNotDeliver(o) == ~o.network \/ ~o.ok \/ ~o.body.parses

\* C17: once the single fetch of the FAQ, Earn or Mobile App page has settled,
\* the page has ended with the not-found transition if the fetcher resolved to
\* null (or to no data at all) and with its content only if data is present;
\* a failed fetch ends with not-found, never with an uncaught error or with
\* anything else.
C17_ServerPageNotFoundWithoutData ==
    (srvCall.caller \in ServerPages /\ srvResult # Pending) =>
        /\ srvResult # Rejected
        /\ srvPage \in {"notFound", "content"}
        /\ srvResult = Resolved(NULL) => srvPage = "notFound"
        /\ srvPage = "content" <=> Truthy(srvResult.resolved)
        /\ FetchDidNotDeliver(srvOutcome) => srvPage = "notFound"

\* the Earn page's fetch failed on the network and the page ended with not-found
C17_Witness ==
    /\ srvCall.caller = "EarnPage"
    /\ srvRequests = 1
    /\ srvOutcome = NetworkFailure
    /\ srvResult = Resolved(NULL)
    /\ srvPage = "notFound"

\* C18: at every moment at most one animation-frame callback of the scroll-spy
\* is pending, and it is the one requested last: a handled scroll event
\* cancels the frame requested before it, so a burst of scroll events between
\* two frames leaves a single callback to update activeSection.
C18_AtMostOneFramePending ==
    /\ Cardinality(pendingFrames) <= 1
    /\ \A id \in pendingFrames : id = rafId

\* two scroll events were handled after the mount and before any frame ran
\* (activeSection is still unset), and only the frame requested last is pending
C18_Witness ==
    /\ Len(sectionRefs) > 0
    /\ activeSection = ""
    /\ faqEvt = "scroll"
    /\ nextFrameId = 4
    /\ pendingFrames = {3}

\* the route parameter of the page being shown, <<>> when it has none
RouteParameter ==
    CASE navRoute = "category" -> navParams.category.some
      [] navRoute = "tag" -> navParams.tag.some
      [] OTHER -> <<>>

\* the two slugs are the same up to the case of their letters
SameSlug(s, t) == Len(s) = Len(t) /\ \A i \in 1..Len(s) : SameLetter(s[i], t[i])

\* C20: BlogNav and NewsroomNav show the category tabs on the index page and
\* on every category page and the tag tabs on the tags page and on every tag
\* page; the selected tabs are those whose slug equals the route parameter up
\* to case, and the 'all' tab alone when the route has no parameter.
C20_NavTabsFollowRoute ==
    navRoute \in NavRoutes =>
        /\ navRoute \in {"index", "category"} => RenderedNav.kind = "categories"
        /\ navRoute \in {"tags", "tag"} => RenderedNav.kind = "tags"
        /\ \A i \in 1..Len(RenderedNav.tabs) :
              RenderedNav.tabs[i].selected <=>
                  IF RouteParameter # <<>>
                  THEN SameSlug(RenderedNav.tabs[i].slug, RouteParameter)
                  ELSE RenderedNav.tabs[i].slug = <<"all">>

\* C21: whenever a paginated list shows its pagination control, the index the
\* control shows as selected is the page state minus one, also when the
\* control is rendered again after the loading skeleton had replaced it.
C21_ControlShowsPageState ==
    ControlShown(view) => view.selected + 1 = view.page

\* the GETs in flight that the mounted component is waiting for
CurrentFetches == {r \in inflight : r.current}

\* C22: a mounted list component has at most one fetch in flight; while it is
\* in flight the component is loading, shows no pagination control and the
\* fetch is the one for its page state; once loading has finished the items
\* shown are those of the current page state (none after a failed fetch),
\* whatever older responses arrive late.
C22_SingleFetchAndCurrentItems ==
    view.kind = "list" =>
        /\ Cardinality(CurrentFetches) <= 1
        /\ \A r \in CurrentFetches :
              /\ view.isLoading
              /\ ~ControlShown(view)
              /\ PageView = "skeleton"
              /\ r.params = ListParams(view)
        /\ ~view.isLoading =>
              /\ CurrentFetches = {}
              /\ view.posts \in {<<>>, CmsResponse(ListParams(view)).data}

\* a list shows the items of its page while the response of an older GET,
\* issued by a component that is gone, has just arrived
C22_Witness ==
    /\ view.kind = "list"
    /\ ~view.isLoading
    /\ view.posts # <<>>
    /\ view.posts = CmsResponse(ListParams(view)).data
    /\ blogEvt = Evt("responseOk", FALSE)
    /\ issued = 2

\* C23: while the 500 ms timer of a sidebar click is still pending, scroll-spy
\* updates stay suppressed: the timer of an earlier click does not clear
\* isManualScrolling before the timer of the latest click has fired.
C23_SuppressedUntilLastTimer ==
    timers # <<>> => isManualScrolling

\* C25: once FAQContent has unmounted no animation-frame callback is left
\* pending and activeSection is never updated again, whatever scroll events,
\* frame callbacks and timers come before or after the unmount.
C25_NoUpdateAfterUnmount ==
    [][~listening => (pendingFrames = {} /\ pendingFrames' = {} /\ activeSection' = activeSection)]_vars

\* the unmount has just cancelled the frame requested at mount: that frame was
\* still pending because no frame has run and no other frame was requested
C25_Witness ==
    /\ ~listening
    /\ faqEvt = "unmount"
    /\ Len(sectionRefs) > 0
    /\ activeSection = ""
    /\ rafId = 1
    /\ nextFrameId = 2
    /\ pendingFrames = {}

\* C24: scroll-spy suppression is temporary. With timers that fire,
\* isManualScrolling always becomes false again; a scroll event handled while
\* it is false requests a frame, and the frame callback sets activeSection to
\* the section closest to the target at the current scroll position; a click
\* on a title without a registered element changes neither isManualScrolling
\* nor activeSection.
C24_SuppressionIsTemporary ==
    /\ isManualScrolling ~> ~isManualScrolling
    /\ [][\A y \in ScrollPositions :
            (ScrollEvent(y) /\ listening /\ ~isManualScrolling)
                => (rafId' # rafId /\ pendingFrames' = {rafId'})]_vars
    /\ [][\A id \in 1..MaxFrames :
            FrameCallback(id) => activeSection' = ClosestSection(sectionRefs, scrollY).title]_vars
    /\ [][\A i \in 1..MaxSections :
            (ScrollToSection(AllTitles[i]) /\ ~HasElement(sectionRefs, AllTitles[i]))
                => (isManualScrolling' = isManualScrolling /\ activeSection' = activeSection)]_vars

\* after two clicks both timers have fired, a scroll event was handled and its
\* frame has moved activeSection away from the clicked section
C24_Witness ==
    /\ faqEvt = "frame"
    /\ lastClicked # ""
    /\ timers = <<>>
    /\ ~isManualScrolling
    /\ scrollY # 0
    /\ activeSection # lastClicked
    /\ activeSection = ClosestSection(sectionRefs, scrollY).title

\* C26: following the redirect table ends after one hop. No source appears
\* twice in the table, the browser never follows more than one redirect, and
\* the URL a redirect leads to is not matched by any source of the table.
C26_RedirectsEndAfterOneHop ==
    /\ \A i, j \in DOMAIN redirects : redirects[i].source = redirects[j].source => i = j
    /\ hops <= 1
    /\ (hops = 1 /\ requestUrl.onSite) => FirstMatch(requestUrl.segments) = 0

\* /library/library was redirected to /blog/library, which no source matches
\* and which the site then serves
C26_Witness ==
    /\ hops = 1
    /\ redirectEvt = "served"
    /\ requestUrl = [onSite |-> TRUE, segments |-> <<"blog", "library">>]

====
